---- MODULE Spec2Model ----
(***************************************************************************)
(* Model of the package-version MCP server (src/src/index.ts):             *)
(*   - PackageVersionServer: enabled-tools set, conditional construction   *)
(*     of the handlers, the ListTools and CallTool request handlers;       *)
(*   - NpmHandler: getLatestVersion (sequential per-package lookups),      *)
(*     getPackageVersion and searchPackages.                               *)
(* A tool name is kept as the sequence of its '_'-separated segments, a    *)
(* version string as the sequence of its characters.                       *)
(***************************************************************************)
EXTENDS Integers, Sequences, FiniteSets, TLC

\* ------------------------------------------------------------------ bounds
MaxDeps == 2
MaxRequestedSize == 255

\* ------------------------------------------------------- program constants
DefaultSearchSize == 20
MaxSearchSize == 250

\* ---------------------------------------------------------------- strings
Undefined == "<undefined>"

\* String.prototype.toLowerCase on the strings the model uses
ToLowerCase(s) ==
    CASE s = "NPM" -> "npm"
      [] s = " Python " -> " python "
      [] s = "GO" -> "go"
      [] OTHER -> s

\* String.prototype.trim on the strings the model uses
Trim(s) ==
    CASE s = " python " -> "python"
      [] s = " Python " -> "Python"
      [] s = " " -> ""
      [] OTHER -> s

\* ---------------------------------------------------------- configuration
\* pieces of PV_ENABLED_LANGUAGES_FRAMEWORKS between the commas
RawPieces == {"NPM", " Python ", "maven", "gradle", "GO", "pyproject", " "}

EnvUnset == [kind |-> "unset", pieces |-> {}]
EnvEmpty == [kind |-> "empty", pieces |-> {}]

EnvValues ==
    {EnvUnset, EnvEmpty}
        \cup {[kind |-> "list", pieces |-> S] : S \in (SUBSET RawPieces) \ {{}}}

Ecosystems == {"npm", "python", "maven", "gradle", "go"}

getEnabledTools(e) ==
    IF e.kind \in {"unset", "empty"}
    THEN {"npm", "python", "maven", "gradle", "go"}
    ELSE {Trim(ToLowerCase(p)) : p \in e.pieces}

\* --------------------------------------------------------------- the tools
check_npm_versions       == <<"check", "npm", "versions">>
check_python_versions    == <<"check", "python", "versions">>
check_pyproject_versions == <<"check", "pyproject", "versions">>
check_maven_versions     == <<"check", "maven", "versions">>
check_gradle_versions    == <<"check", "gradle", "versions">>
check_go_versions        == <<"check", "go", "versions">>
search_npm_packages      == <<"search", "npm", "packages">>

\* allTools of the ListTools handler: name and the argument of its
\* `enabled: this.isToolEnabled(...)` flag
allTools ==
    << [name |-> check_npm_versions,       flag |-> "npm"],
       [name |-> check_python_versions,    flag |-> "python"],
       [name |-> check_pyproject_versions, flag |-> "python"],
       [name |-> check_maven_versions,     flag |-> "maven"],
       [name |-> check_gradle_versions,    flag |-> "gradle"],
       [name |-> check_go_versions,        flag |-> "go"],
       [name |-> search_npm_packages,      flag |-> "npm"] >>

\* names a caller may send: the seven tools and names that are none of them
RequestNames ==
    {allTools[i].name : i \in 1..Len(allTools)}
        \cup { <<"ping">>,
               <<"check", "npm">>,
               <<"check", "NPM", "versions">>,
               <<"check", "rust", "versions">>,
               <<"check", "", "versions">>,
               <<"versions", "check", "npm">> }

\* ------------------------------------------------------- argument values
NotAString == [isString |-> FALSE, chars |-> <<>>]
Str(cs) == [isString |-> TRUE, chars |-> cs]

VersionStrings ==
    { <<>>,
      <<"^", "1", ".", "2", ".", "3">>,
      <<"~", "1", ".", "2", ".", "3">>,
      <<"1", ".", "2", ".", "3">>,
      <<"^", "~", "1">> }

VersionValues == {Str(cs) : cs \in VersionStrings} \cup {NotAString}

PackageNames == {"lodash", "express", "react"}

IndexNames == <<"0", "1", "2", "3">>

\* sequences of length 0..n over S without a repeated name
RECURSIVE EntriesUpTo(_)
EntriesUpTo(n) ==
    IF n = 0 THEN {<<>>}
    ELSE LET prev == EntriesUpTo(n - 1) IN
         prev \cup
         { Append(es, [name |-> nm, version |-> v]) :
             es \in {p \in prev : Len(p) = n - 1},
             nm \in PackageNames, v \in VersionValues }

DistinctNames(es) ==
    \A i, j \in 1..Len(es) : i # j => es[i].name # es[j].name

ObjectValues ==
    { [type |-> "object", truthy |-> TRUE, entries |-> es] :
        es \in {e \in EntriesUpTo(MaxDeps) : DistinctNames(e)} }

\* an array's own enumerable entries are its indices and elements
ArrayElements == {Str(<<"1", ".", "2", ".", "3">>), NotAString}

ArrayValues ==
    { [type |-> "array", truthy |-> TRUE,
       entries |-> [i \in 1..n |-> [name |-> IndexNames[i], version |-> els[i]]]] :
        n \in 0..MaxDeps, els \in [1..MaxDeps -> ArrayElements] }

OtherValues ==
    { [type |-> "undefined", truthy |-> FALSE, entries |-> <<>>],
      [type |-> "null",      truthy |-> FALSE, entries |-> <<>>],
      [type |-> "number",    truthy |-> FALSE, entries |-> <<>>],
      [type |-> "number",    truthy |-> TRUE,  entries |-> <<>>],
      [type |-> "string",    truthy |-> FALSE, entries |-> <<>>],
      [type |-> "string",    truthy |-> TRUE,  entries |-> <<>>],
      [type |-> "boolean",   truthy |-> TRUE,  entries |-> <<>>] }

DependenciesValues == ObjectValues \cup ArrayValues \cup OtherValues

NoDependencies == [type |-> "undefined", truthy |-> FALSE, entries |-> <<>>]

\* the typeof operator
TypeOf(d) == IF d.type \in {"null", "array", "object"} THEN "object" ELSE d.type

NoSize == [present |-> FALSE, value |-> 0]

SizeValues ==
    {NoSize} \cup {[present |-> TRUE, value |-> n] :
                     n \in (-1..MaxRequestedSize) \cup {1000}}


\* String(n) for an integer n: its decimal numeral, as a character sequence
DigitChars == <<"0", "1", "2", "3", "4", "5", "6", "7", "8", "9">>

RECURSIVE Digits(_)
Digits(n) ==
    IF n < 10 THEN <<DigitChars[n + 1]>>
    ELSE Append(Digits(n \div 10), DigitChars[(n % 10) + 1])

DecimalString(n) == IF n < 0 THEN <<"-">> \o Digits(0 - n) ELSE Digits(n)

\* ------------------------------------------------------------------ state
VARIABLES
    env,            \* process.env.PV_ENABLED_LANGUAGES_FRAMEWORKS
    enabledTools,   \* this.enabledTools
    npmHandler,     \* TRUE iff this.npmHandler was constructed
    pythonHandler,  \* TRUE iff this.pythonHandler was constructed
    javaHandler,    \* TRUE iff this.javaHandler was constructed
    goHandler,      \* TRUE iff this.goHandler was constructed
    pc,             \* "idle", "npm_loop", "search_await", "responded"
    request,        \* the request being served
    routed,         \* the handler method the CallTool switch invoked
    lookups,        \* per entry of dependencies: state and reply of its lookup
    results,        \* results array of getLatestVersion
    query,          \* the outgoing registry search query
    response        \* what the caller receives

vars == <<env, enabledTools, npmHandler, pythonHandler, javaHandler, goHandler,
          pc, request, routed, lookups, results, query, response>>

config == <<env, enabledTools, npmHandler, pythonHandler, javaHandler, goHandler>>

NoRequest ==
    [method |-> "none", name |-> <<>>, hasArgs |-> FALSE,
     dependencies |-> NoDependencies, size |-> NoSize]

NoQuery == [sent |-> FALSE, size |-> <<>>]

NoResponse    == [kind |-> "none",      code |-> "", list |-> <<>>, tools |-> {}]
UndefinedResp == [kind |-> "undefined", code |-> "", list |-> <<>>, tools |-> {}]
TypeErrorResp == [kind |-> "TypeError", code |-> "", list |-> <<>>, tools |-> {}]
McpError(c)   == [kind |-> "error",     code |-> c,  list |-> <<>>, tools |-> {}]
Content(l)    == [kind |-> "content",   code |-> "", list |-> l,    tools |-> {}]
ToolList(ts)  == [kind |-> "tools",     code |-> "", list |-> <<>>, tools |-> ts]

isToolEnabledIn(enabled, tool) == ToLowerCase(tool) \in enabled

isToolEnabled(tool) == isToolEnabledIn(enabledTools, tool)

\* constructor: the enabled set and the conditionally constructed handlers
Init ==
    /\ env \in EnvValues
    /\ enabledTools = getEnabledTools(env)
    /\ npmHandler = isToolEnabledIn(getEnabledTools(env), "npm")
    /\ pythonHandler = isToolEnabledIn(getEnabledTools(env), "python")
    /\ javaHandler = (isToolEnabledIn(getEnabledTools(env), "maven")
                        \/ isToolEnabledIn(getEnabledTools(env), "gradle"))
    /\ goHandler = isToolEnabledIn(getEnabledTools(env), "go")
    /\ pc = "idle"
    /\ request = NoRequest
    /\ routed = "none"
    /\ lookups = <<>>
    /\ results = <<>>
    /\ query = NoQuery
    /\ response = NoResponse

\* ----------------------------------------------------------- ListTools
ListedTools ==
    {allTools[i].name : i \in {j \in 1..Len(allTools) : isToolEnabled(allTools[j].flag)}}

ListTools ==
    /\ pc = "idle"
    /\ request' = [NoRequest EXCEPT !.method = "list"]
    /\ response' = ToolList(ListedTools)
    /\ pc' = "responded"
    /\ UNCHANGED <<config, routed, lookups, results, query>>

\* ------------------------------------------------------------ CallTool
\* request.params.name.split('_')[1]?.split('_')[0]
toolNameOf(name) == IF Len(name) >= 2 THEN name[2] ELSE Undefined

\* the switch on request.params.name
SwitchTarget(name) ==
    CASE name = check_npm_versions       -> "npmHandler.getLatestVersion"
      [] name = check_python_versions    -> "pythonHandler.getLatestVersionFromRequirements"
      [] name = check_pyproject_versions -> "pythonHandler.getLatestVersion"
      [] name = check_maven_versions     -> "javaHandler.getLatestVersionFromMaven"
      [] name = check_gradle_versions    -> "javaHandler.getLatestVersion"
      [] name = check_go_versions        -> "goHandler.getLatestVersion"
      [] name = search_npm_packages      -> "npmHandler.searchPackages"
      [] OTHER                           -> "default"

\* whether the handler object a switch target is called on was constructed
HandlerConstructed(target) ==
    CASE target \in {"npmHandler.getLatestVersion", "npmHandler.searchPackages"}
            -> npmHandler
      [] target \in {"pythonHandler.getLatestVersionFromRequirements",
                     "pythonHandler.getLatestVersion"}
            -> pythonHandler
      [] target \in {"javaHandler.getLatestVersionFromMaven",
                     "javaHandler.getLatestVersion"}
            -> javaHandler
      [] OTHER -> goHandler

Throw(r)  == [kind |-> "respond", response |-> r, target |-> "none"]
Invoke(t) == [kind |-> "invoke", response |-> NoResponse, target |-> t]

\* the enabled check and the switch of the CallTool handler
RouteCall(req) ==
    LET toolName == toolNameOf(req.name) IN
    IF toolName = Undefined THEN Throw(TypeErrorResp)
    ELSE IF ~isToolEnabled(toolName) THEN Throw(McpError("MethodNotFound"))
    ELSE LET target == SwitchTarget(req.name) IN
         IF target = "default" THEN Throw(McpError("MethodNotFound"))
         ELSE IF ~HandlerConstructed(target) THEN Throw(UndefinedResp)
         ELSE Invoke(target)

\* the enabled check made before the arguments check
DispatchEnabledFirst(req) ==
    LET r == RouteCall(req) IN
    IF r.kind = "respond" /\ r.response.kind = "error" THEN r
    ELSE IF ~req.hasArgs THEN Throw(McpError("InvalidParams"))
    ELSE r

\* the CallTool handler up to the call of a handler method
Dispatch(req) ==
    IF ~req.hasArgs THEN Throw(McpError("InvalidParams"))
    ELSE RouteCall(req)


\* ---------------------------------------------------------- NpmHandler
\* what the registry answers to GET {registry}/{name}: the request fails, or
\* it succeeds and dist-tags.latest is absent/empty ("") or a version
RegistryReplies ==
    { [ok |-> FALSE, latest |-> ""],
      [ok |-> TRUE,  latest |-> ""],
      [ok |-> TRUE,  latest |-> "4.17.21"] }

NoReply == [ok |-> FALSE, latest |-> ""]

Pending == [st |-> "pending", reply |-> NoReply]

NoCurrentVersion == [present |-> FALSE, chars |-> <<>>]

\* currentVersion.replace(/^[\^]/, ''): only the caret is stripped
ReplaceLeadingCaret(cs) ==
    IF cs # <<>> /\ Head(cs) = "^" THEN Tail(cs) ELSE cs

\* currentVersion.replace(/^[\^~]/, '')
ReplaceLeadingRange(cs) ==
    IF cs # <<>> /\ Head(cs) \in {"^", "~"} THEN Tail(cs) ELSE cs

\* getPackageVersion once axios.get has settled with `reply`
getPackageVersion(packageName, currentVersion, reply) ==
    IF ~reply.ok \/ reply.latest = ""
    THEN [threw |-> TRUE, error |-> McpError("InternalError"),
          value |-> [name |-> packageName, latestVersion |-> "",
                     registry |-> "npm", currentVersion |-> NoCurrentVersion]]
    ELSE [threw |-> FALSE, error |-> NoResponse,
          value |-> [name |-> packageName, latestVersion |-> reply.latest,
                     registry |-> "npm",
                     currentVersion |->
                        IF currentVersion # <<>>
                        THEN [present |-> TRUE,
                              chars |-> ReplaceLeadingRange(currentVersion)]
                        ELSE NoCurrentVersion]]

\* the shape check of getLatestVersion
InvalidDependencies(d) == ~d.truthy \/ TypeOf(d) # "object"

Entries == request.dependencies.entries

InFlight == {k \in 1..Len(lookups) : lookups[k].st = "inflight"}

PendingEntries == {k \in 1..Len(lookups) : lookups[k].st = "pending"}

\* the loop goes on without waiting for the lookup it started
LoopReadyNoAwait == TRUE

\* `await this.getPackageVersion(...)`: the loop body is suspended while a
\* lookup is in flight
LoopReady == InFlight = {}

Min(S) == CHOOSE k \in S : \A j \in S : k <= j

\* Math.min(params.size || 20, 250) without the cap
SearchSizeUncapped(size) ==
    DecimalString(IF size.present /\ size.value # 0 THEN size.value
                  ELSE DefaultSearchSize)

\* String(Math.min(params.size || 20, 250))
SearchSize(size) ==
    LET requested == IF size.present /\ size.value # 0 THEN size.value
                     ELSE DefaultSearchSize
    IN DecimalString(IF requested < MaxSearchSize THEN requested ELSE MaxSearchSize)

\* what the search endpoint answers: the request fails, or it returns hits
SearchReplies == {"failed", "malformed", "hits"}

\* the Python, Java and Go handler methods: a result list or a shape error
ForeignHandlerResults == {Content(<<>>), McpError("InvalidParams")}

\* the arguments a caller sends: `dependencies` with check_npm_versions and
\* `size` with search_npm_packages
ArgumentDependencies(name, hasArgs) ==
    IF hasArgs /\ name = check_npm_versions THEN DependenciesValues
    ELSE {NoDependencies}

ArgumentSizes(name, hasArgs) ==
    IF hasArgs /\ name = search_npm_packages THEN SizeValues ELSE {NoSize}

\* the request handler's synchronous part: checks, routing, and the entry
\* into the handler method
CallTool ==
    /\ pc = "idle"
    /\ \E name \in RequestNames, hasArgs \in BOOLEAN :
       \E deps \in ArgumentDependencies(name, hasArgs),
          size \in ArgumentSizes(name, hasArgs) :
         /\ LET req == [method |-> "call", name |-> name, hasArgs |-> hasArgs,
                        dependencies |-> deps, size |-> size]
                d == Dispatch(req)
            IN /\ request' = req
               /\ routed' = d.target
               /\ CASE d.kind = "respond" ->
                         /\ response' = d.response
                         /\ pc' = "responded"
                         /\ UNCHANGED <<lookups, query>>
                    [] d.target = "npmHandler.getLatestVersion" ->
                         IF InvalidDependencies(deps)
                         THEN /\ response' = McpError("InvalidParams")
                              /\ pc' = "responded"
                              /\ UNCHANGED <<lookups, query>>
                         ELSE /\ lookups' = [k \in 1..Len(deps.entries) |-> Pending]
                              /\ pc' = "npm_loop"
                              /\ UNCHANGED <<response, query>>
                    [] d.target = "npmHandler.searchPackages" ->
                         /\ query' = [sent |-> TRUE, size |-> SearchSize(size)]
                         /\ pc' = "search_await"
                         /\ UNCHANGED <<response, lookups>>
                    [] OTHER ->
                         /\ \E r \in ForeignHandlerResults : response' = r
                         /\ pc' = "responded"
                         /\ UNCHANGED <<lookups, query>>
    /\ UNCHANGED <<config, results>>


Settled(k, reply) == [lookups EXCEPT ![k] = [st |-> "done", reply |-> reply]]

\* the error of getPackageVersion leaves getLatestVersion
LookupRethrown(k, reply) ==
    /\ lookups' = Settled(k, reply)
    /\ response' = McpError("InternalError")
    /\ pc' = "responded"
    /\ UNCHANGED results

\* catch (error) { console.error(...) } in the loop of getLatestVersion
LookupCaught(k, reply) ==
    /\ lookups' = Settled(k, reply)
    /\ UNCHANGED <<results, response, pc>>

\* `if (typeof version !== 'string') continue`
NpmLoopSkip ==
    /\ pc = "npm_loop"
    /\ LoopReady
    /\ PendingEntries # {}
    /\ ~Entries[Min(PendingEntries)].version.isString
    /\ lookups' = [lookups EXCEPT ![Min(PendingEntries)].st = "skipped"]
    /\ UNCHANGED <<config, pc, request, routed, results, query, response>>

\* the loop body reaches axios.get for the next entry
NpmLoopStart ==
    /\ pc = "npm_loop"
    /\ LoopReady
    /\ PendingEntries # {}
    /\ Entries[Min(PendingEntries)].version.isString
    /\ lookups' = [lookups EXCEPT ![Min(PendingEntries)].st = "inflight"]
    /\ UNCHANGED <<config, pc, request, routed, results, query, response>>

\* axios.get settles; getPackageVersion returns or throws
NpmLookupReply ==
    /\ pc = "npm_loop"
    /\ \E k \in InFlight, reply \in RegistryReplies :
         LET r == getPackageVersion(Entries[k].name, Entries[k].version.chars, reply)
         IN IF r.threw
            THEN LookupCaught(k, reply)
            ELSE /\ lookups' = Settled(k, reply)
                 /\ results' = Append(results, r.value)
                 /\ UNCHANGED <<response, pc>>
    /\ UNCHANGED <<config, request, routed, query>>

\* the loop is over: return { content: [ JSON.stringify(results) ] }
NpmLoopReturn ==
    /\ pc = "npm_loop"
    /\ LoopReady
    /\ PendingEntries = {}
    /\ response' = Content(results)
    /\ pc' = "responded"
    /\ UNCHANGED <<config, request, routed, lookups, results, query>>

\* the search request settles
SearchReply ==
    /\ pc = "search_await"
    /\ \E r \in SearchReplies :
         response' = IF r = "hits" THEN Content(<<>>) ELSE McpError("InternalError")
    /\ pc' = "responded"
    /\ UNCHANGED <<config, request, routed, lookups, results, query>>

\* the response is sent; the server waits for the next request
Reply ==
    /\ pc = "responded"
    /\ pc' = "idle"
    /\ request' = NoRequest
    /\ routed' = "none"
    /\ lookups' = <<>>
    /\ results' = <<>>
    /\ query' = NoQuery
    /\ response' = NoResponse
    /\ UNCHANGED config

Next ==
    \/ ListTools
    \/ CallTool
    \/ NpmLoopSkip
    \/ NpmLoopStart
    \/ NpmLookupReply
    \/ NpmLoopReturn
    \/ SearchReply
    \/ Reply

Spec == Init /\ [][Next]_vars

TypeOK ==
    /\ pc \in {"idle", "npm_loop", "search_await", "responded"}
    /\ enabledTools \subseteq {"npm", "python", "maven", "gradle", "go", "pyproject", ""}
    /\ response.kind \in {"none", "tools", "content", "error", "undefined", "TypeError"}


\* ================================================================ claims

SevenTools ==
    {check_npm_versions, search_npm_packages, check_python_versions,
     check_pyproject_versions, check_maven_versions, check_gradle_versions,
     check_go_versions}

\* the tools of each ecosystem, as the claims list them
EcosystemTools(E) ==
    CASE E = "npm"    -> {check_npm_versions, search_npm_packages}
      [] E = "python" -> {check_python_versions, check_pyproject_versions}
      [] E = "maven"  -> {check_maven_versions}
      [] E = "gradle" -> {check_gradle_versions}
      [] E = "go"     -> {check_go_versions}

Governing(name) == CHOOSE E \in Ecosystems : name \in EcosystemTools(E)

\* the handler method each tool stands for
MatchingMethod(name) ==
    CASE name = check_npm_versions       -> "npmHandler.getLatestVersion"
      [] name = search_npm_packages      -> "npmHandler.searchPackages"
      [] name = check_python_versions    -> "pythonHandler.getLatestVersionFromRequirements"
      [] name = check_pyproject_versions -> "pythonHandler.getLatestVersion"
      [] name = check_maven_versions     -> "javaHandler.getLatestVersionFromMaven"
      [] name = check_gradle_versions    -> "javaHandler.getLatestVersion"
      [] name = check_go_versions        -> "goHandler.getLatestVersion"

CallWithArgs == request.method = "call" /\ request.hasArgs

\* C1: for every ecosystem E of the five that is not in the enabled set, the
\* list-tools response holds none of E's tools, and a call of any of E's
\* tools with arguments is answered with a method-not-found error.
C1_DisabledEcosystemHiddenAndRejected ==
    \A E \in Ecosystems \ enabledTools :
        /\ response.kind = "tools" => response.tools \cap EcosystemTools(E) = {}
        /\ (CallWithArgs /\ request.name \in EcosystemTools(E))
              => (pc = "responded" /\ response = McpError("MethodNotFound"))

\* C2: a call, with arguments, of one of the seven tools whose governing
\* ecosystem is enabled is not rejected with method-not-found and is routed
\* to the matching handler method.
C2_EnabledToolIsRouted ==
    (CallWithArgs /\ request.name \in SevenTools
        /\ Governing(request.name) \in enabledTools)
      => (response # McpError("MethodNotFound")
            /\ routed = MatchingMethod(request.name))

\* C3: a call without arguments is answered with an invalid-parameters error
\* whatever the tool name, before the enabled check and the routing, and no
\* handler method is invoked.
C3_MissingArgumentsRejectedFirst ==
    (request.method = "call" /\ ~request.hasArgs)
      => /\ pc = "responded"
         /\ response = McpError("InvalidParams")
         /\ routed = "none"
         /\ lookups = <<>>
         /\ ~query.sent

C3_Witness ==
    /\ request.method = "call" /\ ~request.hasArgs
    /\ request.name = check_go_versions
    /\ "go" \notin enabledTools
    /\ response = McpError("InvalidParams")

\* C4: a call, with arguments, of a name that is none of the seven tools is
\* answered with a method-not-found error and fails in no other way.
C4_UnknownToolMethodNotFound ==
    (CallWithArgs /\ request.name \notin SevenTools)
      => (pc = "responded" /\ response = McpError("MethodNotFound"))

\* C5: every answered call carries a content payload or an error; none is
\* answered with nothing because the handler it was routed to was never
\* constructed.  (An exception thrown by the request handler counts here as
\* an error the transport reports.)
C5_PayloadOrStructuredError ==
    (pc = "responded" /\ request.method = "call")
      => response.kind \in {"content", "error", "TypeError"}


NpmCall == request.method = "call" /\ routed = "npmHandler.getLatestVersion"

LookupSucceeded(k) ==
    lookups[k].st = "done" /\ lookups[k].reply.ok /\ lookups[k].reply.latest # ""

LookupFailed(k) == lookups[k].st = "done" /\ ~LookupSucceeded(k)

\* the names of the entries 1..n whose lookup succeeded, in input order
RECURSIVE SucceededNames(_)
SucceededNames(n) ==
    IF n = 0 THEN <<>>
    ELSE IF LookupSucceeded(n)
         THEN Append(SucceededNames(n - 1), Entries[n].name)
         ELSE SucceededNames(n - 1)

NamesOf(list) == [i \in 1..Len(list) |-> list[i].name]

\* C6: check_npm_versions, once past its shape check, answers with a content
\* payload whatever lookups failed; the list is exactly the entries whose
\* lookup succeeded, one per name and in input order, each with a non-empty
\* latestVersion, so it is no longer than the input.
C6_PartialResultsInInputOrder ==
    (pc = "responded" /\ NpmCall /\ ~InvalidDependencies(request.dependencies))
      => /\ response.kind = "content"
         /\ NamesOf(response.list) = SucceededNames(Len(lookups))
         /\ \A i \in 1..Len(response.list) :
               /\ response.list[i].latestVersion # ""
               /\ response.list[i].registry = "npm"
         /\ Len(response.list) <= Len(Entries)

C6_Witness ==
    /\ pc = "responded" /\ NpmCall
    /\ request.dependencies.type = "object"
    /\ Len(lookups) = 2
    /\ LookupFailed(1)
    /\ LookupSucceeded(2)
    /\ response.kind = "content"
    /\ Len(response.list) = 1

\* C7: check_npm_versions answers with an invalid-parameters error, and
\* looks nothing up, whenever its dependencies argument is not an object
\* mapping names to versions (missing, null, a primitive, or an array).
C7_WrongShapeRejected ==
    (NpmCall /\ request.dependencies.type # "object")
      => /\ pc = "responded"
         /\ response = McpError("InvalidParams")
         /\ lookups = <<>>

DeclaredVersion(name) ==
    LET k == CHOOSE i \in 1..Len(Entries) : Entries[i].name = name
    IN Entries[k].version.chars

\* v with a leading ^ or ~ taken off
WithoutRangePrefix(v) ==
    IF v = <<>> THEN v
    ELSE IF v[1] = "^" \/ v[1] = "~" THEN SubSeq(v, 2, Len(v)) ELSE v

\* C8 (as stated): every resolved package declared with version v is
\* reported with currentVersion equal to v without its leading ^ or ~.
C8_CurrentVersionStripped ==
    NpmCall =>
      \A i \in 1..Len(results) :
         /\ results[i].currentVersion.present
         /\ results[i].currentVersion.chars
               = WithoutRangePrefix(DeclaredVersion(results[i].name))

\* C8 (amended): every resolved package declared with a non-empty version v
\* is reported with currentVersion equal to v without its one leading ^ or ~
\* (v itself when it starts with neither); a package declared with the empty
\* version string is reported without a currentVersion.
C8_NonEmptyCurrentVersionStripped ==
    NpmCall =>
      \A i \in 1..Len(results) :
         LET v == DeclaredVersion(results[i].name) IN
         IF v = <<>>
         THEN ~results[i].currentVersion.present
         ELSE /\ results[i].currentVersion.present
              /\ results[i].currentVersion.chars = WithoutRangePrefix(v)

C8_Witness ==
    /\ pc = "responded" /\ NpmCall /\ response.kind = "content"
    /\ \E i, j \in 1..Len(response.list) :
          /\ DeclaredVersion(response.list[i].name) = <<"^", "1", ".", "2", ".", "3">>
          /\ DeclaredVersion(response.list[j].name) = <<"~", "1", ".", "2", ".", "3">>
          /\ response.list[i].currentVersion.chars = <<"1", ".", "2", ".", "3">>
          /\ response.list[j].currentVersion.chars = <<"1", ".", "2", ".", "3">>

DigitValue(c) == CHOOSE d \in 0..9 : DigitChars[d + 1] = c

RECURSIVE NumeralValue(_)
NumeralValue(cs) ==
    IF cs = <<>> THEN 0
    ELSE 10 * NumeralValue(SubSeq(cs, 1, Len(cs) - 1)) + DigitValue(cs[Len(cs)])

\* the number a decimal numeral denotes
NumberOf(cs) ==
    IF cs # <<>> /\ cs[1] = "-" THEN 0 - NumeralValue(Tail(cs)) ELSE NumeralValue(cs)

\* C9: the size sent in the registry search query is at most 250: a
\* requested size above 250 is sent as 250, one from 1 to 250 is sent
\* unchanged, and an absent one is sent as 20.
C9_SearchSizeCapped ==
    query.sent =>
      LET sentSize == NumberOf(query.size)
          asked == request.size
      IN /\ sentSize <= 250
         /\ (asked.present /\ asked.value > 250) => sentSize = 250
         /\ (asked.present /\ asked.value >= 1 /\ asked.value <= 250)
               => sentSize = asked.value
         /\ ~asked.present => sentSize = 20

C9_Witness ==
    /\ query.sent
    /\ request.size = [present |-> TRUE, value |-> 1000]
    /\ query.size = <<"2", "5", "0">>

\* C10: within one check_npm_versions call at most one lookup is in flight;
\* a lookup is in flight only when every earlier entry is settled or skipped
\* and no later entry has been touched; the call answers only when every
\* entry is settled or skipped.
C10_LookupsSequential ==
    /\ Cardinality(InFlight) <= 1
    /\ \A k \in InFlight :
          /\ \A j \in 1..(k - 1) : lookups[j].st \in {"done", "skipped"}
          /\ \A j \in (k + 1)..Len(lookups) : lookups[j].st = "pending"
    /\ \A j, k \in 1..Len(lookups) :
          (j < k /\ lookups[j].st = "pending") => lookups[k].st = "pending"
    /\ (pc = "responded" /\ NpmCall)
          => \A k \in 1..Len(lookups) : lookups[k].st \in {"done", "skipped"}

C10_Witness ==
    /\ pc = "npm_loop"
    /\ Len(lookups) = 2
    /\ lookups[1].st = "done"
    /\ lookups[2].st = "inflight"

====
